---------------------------- MODULE Spec2Model ----------------------------
(***************************************************************************)
(* Model of the belts solver, part2_assignment/belts/main.py: run_belts    *)
(* (graph builder with the lower-bound transform, certificate and flow     *)
(* reconstruction) on top of the Dinic class (add_edge, bfs_level,         *)
(* dfs_flow, max_flow, reachable_from).                                    *)
(*                                                                         *)
(* Quantities.  The program computes on floats; here every quantity is an  *)
(* integer counted in units of EPS (1e-9), so EPS is 1 and the program's   *)
(* comparisons against EPS and against 1e-6 are kept as written.  INF      *)
(* (1e18 in the program) is scaled down to fit TLC's integers; it stays    *)
(* far above every finite quantity of the model.                           *)
(*                                                                         *)
(* Names.  Node identifiers are the integers 1..NumNodes, ordered as the   *)
(* program orders its string identifiers; 0 stands for None.  Vertices of  *)
(* the residual graph are numbered from 0 as in the program; positions in  *)
(* an adjacency list and the resume pointers it[] count from 1 (Python's   *)
(* index plus one).                                                        *)
(***************************************************************************)
EXTENDS Integers, Sequences, FiniteSets, TLC

\* ------------------------------------------------------------- bounds
NumNodes == 3
MaxEdges == 3
MaxSources == 1
MaxCaps == 1
MaxItems == 4
ReNodes == 2
ReEdges == 2
DNodes == 2
DEdges == 2

\* ---------------------------------------------------------- constants
EPS == 1
INF == 1000000000
TightTol == 1000
Unit == 10 * TightTol

Names == 1..NumNodes
None == 0

\* ------------------------------------------------------------ helpers
\* a variant that returns its first argument
MinFirst(a, b) == a

Min(a, b) == IF a < b THEN a ELSE b
Max(a, b) == IF a > b THEN a ELSE b
Abs(a) == IF a < 0 THEN 0 - a ELSE a

RECURSIVE SumOver(_, _)
SumOver(S, f) ==
  IF S = {} THEN 0
  ELSE LET x == CHOOSE y \in S : TRUE IN f[x] + SumOver(S \ {x}, f)

SeqRange(q) == {q[i] : i \in 1..Len(q)}

\* sorted(node_set): the ascending sequence of a set of node names
RECURSIVE SortedNodes(_)
SortedNodes(S) ==
  IF S = {} THEN <<>>
  ELSE LET m == CHOOSE x \in S : \A y \in S : x <= y
       IN <<m>> \o SortedNodes(S \ {m})

\* tuple comparison of the keys (from, to, lo, hi) and (from, to)
EdgeKeyLess(a, b) ==
  \/ a.from < b.from
  \/ a.from = b.from /\ a.to < b.to
  \/ a.from = b.from /\ a.to = b.to /\ a.lo < b.lo
  \/ a.from = b.from /\ a.to = b.to /\ a.lo = b.lo /\ a.hi < b.hi

FromToLess(a, b) ==
  \/ a.from < b.from
  \/ a.from = b.from /\ a.to < b.to

\* Python's sorted(): a stable sort, here by insertion from the left.
\* full = TRUE sorts by (from, to, lo, hi), full = FALSE by (from, to).
KeyLess(full, a, b) == IF full THEN EdgeKeyLess(a, b) ELSE FromToLess(a, b)

RECURSIVE InsertBy(_, _, _)
InsertBy(full, q, x) ==
  IF q = <<>> THEN <<x>>
  ELSE IF KeyLess(full, x, Head(q)) THEN <<x>> \o q
  ELSE <<Head(q)>> \o InsertBy(full, Tail(q), x)

\* a variant that keeps the order of the input
Unsorted(full, q) == q

RECURSIVE SortBy(_, _)
SortBy(full, q) ==
  IF q = <<>> THEN <<>>
  ELSE InsertBy(full, SortBy(full, SubSeq(q, 1, Len(q) - 1)), q[Len(q)])

\* ------------------------------------------------------ class Dinic
\* Dinic.Edge.__init__
Edge(to, rev, cap) == [to |-> to, rev |-> rev, cap |-> cap, flow |-> 0]

\* Dinic.__init__: n empty adjacency lists
NewGraph(n) == [v \in 0..(n - 1) |-> <<>>]

\* Dinic.add_edge: both rev handles are taken before either append
AddEdge(A, u, v, cap) ==
  LET a == Edge(v, Len(A[v]) + 1, cap)
      b == Edge(u, Len(A[u]) + 1, 0)
      A1 == [A EXCEPT ![u] = Append(@, a)]
  IN [A1 EXCEPT ![v] = Append(@, b)]

Residual(e) == e.cap - e.flow

\* Dinic.bfs_level: the queue loop; lev is -1 for unreached vertices
RECURSIVE BfsScan(_, _, _, _, _)
BfsScan(A, lev, q, u, i) ==
  IF i > Len(A[u]) THEN [level |-> lev, q |-> q]
  ELSE LET e == A[u][i]
       IN IF lev[e.to] < 0 /\ Residual(e) > EPS
          THEN BfsScan(A, [lev EXCEPT ![e.to] = lev[u] + 1], Append(q, e.to), u, i + 1)
          ELSE BfsScan(A, lev, q, u, i + 1)

RECURSIVE BfsLoop(_, _, _)
BfsLoop(A, lev, q) ==
  IF q = <<>> THEN lev
  ELSE LET r == BfsScan(A, lev, Tail(q), Head(q), 1)
       IN BfsLoop(A, r.level, r.q)

bfs_level(A, s) ==
  BfsLoop(A, [v \in DOMAIN A |-> IF v = s THEN 0 ELSE -1], <<s>>)

\* Dinic.dfs_flow: returns the amount pushed with the graph and the resume
\* pointers as the call leaves them
RECURSIVE dfs_flow(_, _, _, _, _, _)
RECURSIVE DfsScan(_, _, _, _, _, _, _)
\* a variant that leaves the paired reverse edge alone
AugmentForwardOnly(A, u, i, f) == [A EXCEPT ![u][i].flow = @ + f]

Augment(A, u, i, f) ==
  LET e == A[u][i]
      A1 == [A EXCEPT ![u][i].flow = @ + f]
  IN [A1 EXCEPT ![e.to][e.rev].flow = @ - f]

DfsScan(A, itr, u, t, pushed, lev, i) ==
  IF i > Len(A[u]) THEN [pushed |-> 0, adj |-> A, it |-> itr]
  ELSE LET e == A[u][i]
       IN IF Residual(e) > EPS /\ lev[e.to] = lev[u] + 1
          THEN LET r == dfs_flow(A, itr, e.to, t, Min(pushed, Residual(e)), lev)
               IN IF r.pushed > EPS
                  THEN [pushed |-> r.pushed,
                        adj |-> Augment(r.adj, u, i, r.pushed),
                        it |-> [r.it EXCEPT ![u] = i]]
                  ELSE DfsScan(r.adj, [r.it EXCEPT ![u] = i + 1], u, t, pushed, lev, i + 1)
          ELSE DfsScan(A, [itr EXCEPT ![u] = i + 1], u, t, pushed, lev, i + 1)

dfs_flow(A, itr, u, t, pushed, lev) ==
  IF u = t THEN [pushed |-> pushed, adj |-> A, it |-> itr]
  ELSE DfsScan(A, itr, u, t, pushed, lev, itr[u])

\* Dinic.reachable_from: the set of vertices marked visited
RECURSIVE ReachLoop(_, _, _)
ReachLoop(A, vis, q) ==
  IF q = <<>> THEN vis
  ELSE LET u == Head(q)
           new == {A[u][i].to : i \in {j \in 1..Len(A[u]) :
                     A[u][j].to \notin vis /\ Residual(A[u][j]) > EPS}}
       IN ReachLoop(A, vis \cup new, Tail(q) \o SortedNodes(new))

\* a variant that follows every edge, saturated or not
RECURSIVE ReachAllLoop(_, _, _)
ReachAllLoop(A, vis, q) ==
  IF q = <<>> THEN vis
  ELSE LET u == Head(q)
           new == {A[u][i].to : i \in {j \in 1..Len(A[u]) : A[u][j].to \notin vis}}
       IN ReachAllLoop(A, vis \cup new, Tail(q) \o SortedNodes(new))

ReachableIgnoringResidual(A, s) == ReachAllLoop(A, {s}, <<s>>)

reachable_from(A, s) == ReachLoop(A, {s}, <<s>>)

\* ---------------------------------------------------- run_belts: builder
\* node_set: nodes list, edge endpoints, source names, sink
NodeSet(d) ==
  SeqRange(d.nodes)
    \cup {d.edges[i].from : i \in 1..Len(d.edges)}
    \cup {d.edges[i].to : i \in 1..Len(d.edges)}
    \cup DOMAIN d.sources
    \cup {d.sink}

\* orig_to_indices: the k-th node of the sorted list gets (2(k-1), 2(k-1)+1)
PosOf(nodes, v) == CHOOSE k \in 1..Len(nodes) : nodes[k] = v
VIn(nodes, v) == 2 * (PosOf(nodes, v) - 1)
VOut(nodes, v) == 2 * (PosOf(nodes, v) - 1) + 1
SStar(nodes) == 2 * Len(nodes)
TStar(nodes) == 2 * Len(nodes) + 1

\* node internal edges v_in -> v_out, capacity node_caps[v] or INF
NodeCap(d, v) == IF v \in DOMAIN d.node_caps THEN d.node_caps[v] ELSE INF

RECURSIVE AddNodeEdges(_, _, _, _)
AddNodeEdges(A, d, nodes, k) ==
  IF k > Len(nodes) THEN A
  ELSE AddNodeEdges(AddEdge(A, VIn(nodes, nodes[k]), VOut(nodes, nodes[k]),
                            NodeCap(d, nodes[k])),
                    d, nodes, k + 1)

\* a variant that only rejects a negative upper bound
BadBoundsNegativeOnly(e) == e.hi + EPS < 0

\* the hi < lo test of the edge loop
BadBounds(e) == e.hi + EPS < e.lo

\* the edge loop over sorted(edges_in): residual edges, edge_map and demand.
\* b is [adj, edge_map, demand, bad]; the loop returns at the first bad edge.
RECURSIVE AddUserEdges(_, _, _, _)
AddUserEdges(b, nodes, es, k) ==
  IF k > Len(es) THEN b
  ELSE LET e == es[k]
           u_out == VOut(nodes, e.from)
           v_in == VIn(nodes, e.to)
       IN IF BadBounds(e) THEN [b EXCEPT !.bad = k]
          ELSE AddUserEdges(
                 [adj |-> AddEdge(b.adj, u_out, v_in, Max(0, e.hi - e.lo)),
                  edge_map |-> Append(b.edge_map,
                     [from |-> e.from, to |-> e.to, lo |-> e.lo, hi |-> e.hi,
                      u_out |-> u_out, v_in |-> v_in]),
                  demand |-> [b.demand EXCEPT ![e.from] = @ - e.lo,
                                               ![e.to] = @ + e.lo],
                  bad |-> 0],
                 nodes, es, k + 1)

\* total_supply, and the demand after the supplies are booked
TotalSupply(d) == SumOver(DOMAIN d.sources, d.sources)

SupplyDemand(d, demand) ==
  LET afterSources == [v \in DOMAIN demand |->
                         IF v \in DOMAIN d.sources THEN demand[v] - d.sources[v]
                         ELSE demand[v]]
  IN [afterSources EXCEPT ![d.sink] = @ + TotalSupply(d)]

\* the s*/t* loop: an edge s* -> v_in for d > EPS, v_out -> t* for d < -EPS
RECURSIVE AddSuperEdges(_, _, _, _)
AddSuperEdges(A, nodes, demand, k) ==
  IF k > Len(nodes) THEN A
  ELSE LET v == nodes[k]
           dv == demand[v]
       IN IF dv > EPS
          THEN AddSuperEdges(AddEdge(A, SStar(nodes), VIn(nodes, v), dv),
                             nodes, demand, k + 1)
          ELSE IF dv < 0 - EPS
          THEN AddSuperEdges(AddEdge(A, VOut(nodes, v), TStar(nodes), 0 - dv),
                             nodes, demand, k + 1)
          ELSE AddSuperEdges(A, nodes, demand, k + 1)

SumPosDemands(nodes, demand) ==
  SumOver({v \in SeqRange(nodes) : demand[v] > EPS}, demand)

\* everything run_belts does before the max_flow call
BuildGraph(d) ==
  LET nodes == SortedNodes(NodeSet(d))
      A0 == AddNodeEdges(NewGraph(2 * Len(nodes) + 2), d, nodes, 1)
      es == SortBy(TRUE, d.edges)
      b == AddUserEdges([adj |-> A0, edge_map |-> <<>>,
                         demand |-> [v \in SeqRange(nodes) |-> 0], bad |-> 0],
                        nodes, es, 1)
      demand == SupplyDemand(d, b.demand)
  IN [nodes |-> nodes,
      bad |-> IF b.bad = 0 THEN <<>> ELSE <<es[b.bad]>>,
      adj |-> AddSuperEdges(b.adj, nodes, demand, 1),
      edge_map |-> b.edge_map,
      total_supply |-> TotalSupply(d),
      sum_pos_demands |-> SumPosDemands(nodes, demand)]

\* ----------------------------------------------------- run_belts: results
NoMessage == [text |-> "", from |-> None, to |-> None]

Result(status, message, maxflow, flows, cut, balance, tnodes, tedges) ==
  [status |-> status, message |-> message, max_flow_per_min |-> maxflow,
   flows |-> flows, cut_reachable |-> cut, demand_balance |-> balance,
   tight_nodes |-> tnodes, tight_edges |-> tedges]

NoResult == Result("none", NoMessage, 0, <<>>, <<>>, 0, <<>>, <<>>)

ErrorResult(text, u, v) ==
  Result("error", [text |-> text, from |-> u, to |-> v], 0, <<>>, <<>>, 0, <<>>, <<>>)

\* "for e in G.adj[u_out]: if e.to == v_in: ... break": the first match
FirstTo(A, u_out, v_in) ==
  LET hits == {i \in 1..Len(A[u_out]) : A[u_out][i].to = v_in}
  IN IF hits = {} THEN 0 ELSE CHOOSE i \in hits : \A j \in hits : i <= j

\* flow reconstruction for one edge record
FlowOf(A, rec) ==
  LET i == FirstTo(A, rec.u_out, rec.v_in)
      flow_on_edge == IF i = 0 THEN 0 ELSE A[rec.u_out][i].flow
  IN Max(0, flow_on_edge + rec.lo)

OkResult(A, b) ==
  LET recs == SortBy(FALSE, b.edge_map)
  IN Result("ok", NoMessage, b.total_supply,
            [k \in 1..Len(recs) |->
               [from |-> recs[k].from, to |-> recs[k].to, flow |-> FlowOf(A, recs[k])]],
            <<>>, 0, <<>>, <<>>)

\* filter a sequence, keeping order
RECURSIVE SelectSeq2(_, _)
SelectSeq2(q, keep) ==
  IF q = <<>> THEN <<>>
  ELSE IF Head(q) \in keep THEN <<Head(q)>> \o SelectSeq2(Tail(q), keep)
  ELSE SelectSeq2(Tail(q), keep)

\* tight_nodes: v_in reachable and the first edge of v_in saturated
TightNode(A, nodes, reach, v) ==
  LET e == A[VIn(nodes, v)][1]
  IN VIn(nodes, v) \in reach /\ Abs(e.cap - e.flow) <= TightTol

\* tight_edges: one entry per record that crosses and whose first matching
\* edge is saturated
RECURSIVE TightEdges(_, _, _, _, _)
TightEdges(A, edge_map, reach, balance, k) ==
  IF k > Len(edge_map) THEN <<>>
  ELSE LET rec == edge_map[k]
           i == FirstTo(A, rec.u_out, rec.v_in)
           rest == TightEdges(A, edge_map, reach, balance, k + 1)
       IN IF /\ rec.u_out \in reach
             /\ rec.v_in \notin reach
             /\ i # 0
             /\ Residual(A[rec.u_out][i]) <= TightTol
          THEN <<[from |-> rec.from, to |-> rec.to,
                  flow_needed |-> Min(balance, Max(0, rec.hi - rec.lo))]>> \o rest
          ELSE rest

InfeasibleResult(A, b, flowed) ==
  LET reach == reachable_from(A, SStar(b.nodes))
      balance == b.sum_pos_demands - flowed
  IN Result("infeasible", NoMessage, 0, <<>>,
            SelectSeq2(b.nodes, {v \in SeqRange(b.nodes) : VIn(b.nodes, v) \in reach}),
            balance,
            SortedNodes({v \in SeqRange(b.nodes) : TightNode(A, b.nodes, reach, v)}),
            TightEdges(A, b.edge_map, reach, balance, 1))

\* the feasibility test after max_flow
Short(flowed, b) == flowed + EPS < b.sum_pos_demands

\* --------------------------------------------------------- requests
\* The requests the model submits.  Edge bounds are the four shapes
\* [0, Unit], [Unit, Unit], hi < lo, and hi below lo by no more than EPS.
Bounds ==
  {<<0, Unit>>, <<Unit, Unit>>, <<Unit, 0>>, <<Unit, Unit - EPS>>}

EdgeSpecs(names, loops) ==
  {[from |-> l[1], to |-> l[2], lo |-> b[1], hi |-> b[2]] :
     l \in {m \in names \X names : loops \/ m[1] # m[2]}, b \in Bounds}

\* edge lists in non-decreasing key order, one per multiset of edges
RECURSIVE EdgeListsFrom(_, _, _)
EdgeListsFrom(specs, len, last) ==
  IF len = 0 THEN {<<>>}
  ELSE {<<>>} \cup
       UNION {{<<e>> \o q : q \in EdgeListsFrom(specs, len - 1, <<e>>)} :
                e \in {x \in specs : last = <<>> \/ ~EdgeKeyLess(x, last[1])}}

Partial(names, maxSize, values) ==
  UNION {[S -> values] : S \in {T \in SUBSET names : Cardinality(T) <= maxSize}}

RequestsOver(names, loops, maxEdges, nodeLists) ==
  [nodes : nodeLists,
   edges : EdgeListsFrom(EdgeSpecs(names, loops), maxEdges, <<>>),
   sources : Partial(names, MaxSources, {Unit}),
   sink : names \cup {None},
   node_caps : Partial(names, MaxCaps, {0, Unit})]

Items(d) ==
  Len(d.edges) + Cardinality(DOMAIN d.sources) + Cardinality(DOMAIN d.node_caps)

\* Spec: up to MaxEdges edges between distinct nodes of `names`, no
\* nodes list, at most MaxItems edges, sources and caps together
Requests(names) ==
  {d \in RequestsOver(names, FALSE, MaxEdges, {<<>>}) : Items(d) <= MaxItems}

\* SpecResubmit: up to ReEdges edges, self-loops included, over 1..n,
\* with and without a nodes list
ReRequests(n) ==
  RequestsOver(1..n, TRUE, ReEdges, {<<>>, [k \in 1..n |-> k]})

\* the orders in which the same edges and nodes can be listed
Reverse(q) == [i \in 1..Len(q) |-> q[Len(q) + 1 - i]]

Orderings(q) ==
  {[i \in 1..Len(q) |-> q[p[i]]] :
     p \in {f \in [1..Len(q) -> 1..Len(q)] : \A i, j \in 1..Len(q) : i # j => f[i] # f[j]}}

\* ------------------------------------------------------------- state
VARIABLES
  data,      \* the request being solved
  pc,        \* "start", "bfs", "dfs", "flowed", "done"
  adj,       \* G.adj
  bk,        \* nodes, edge_map, total_supply, sum_pos_demands
  mf,        \* the arguments of the max_flow call: s, t, limit
  flow,      \* max_flow's local flow
  level,     \* max_flow's local level
  it,        \* max_flow's local it
  calls,     \* number of max_flow calls made for this request
  out,       \* the value run_belts returned
  prev       \* the result of the earlier submission of the same request

vars == <<data, pc, adj, bk, mf, flow, level, it, calls, out, prev>>

NoBook == [nodes |-> <<>>, edge_map |-> <<>>, total_supply |-> 0, sum_pos_demands |-> 0]
NoCall == [s |-> 0, t |-> 0, limit |-> 0]

Fresh(d, p) ==
  /\ data = d
  /\ pc = "start"
  /\ adj = <<>>
  /\ bk = NoBook
  /\ mf = NoCall
  /\ flow = 0
  /\ level = <<>>
  /\ it = <<>>
  /\ calls = 0
  /\ out = NoResult
  /\ prev = p

Init == \E d \in Requests(Names) : Fresh(d, NoResult)

\* run_belts, lines 147-148
RejectNoSink ==
  /\ pc = "start"
  /\ data.sink = None
  /\ out' = ErrorResult("sink not specified", None, None)
  /\ pc' = "done"
  /\ UNCHANGED <<data, adj, bk, mf, flow, level, it, calls, prev>>

\* run_belts, lines 150-194: the edge loop returns at the first bad edge
RejectBadEdge ==
  /\ pc = "start"
  /\ data.sink # None
  /\ \E i \in 1..Len(data.edges) : BadBounds(data.edges[i])
  /\ LET b == BuildGraph(data)
     IN out' = ErrorResult("edge hi < lo for", b.bad[1].from, b.bad[1].to)
  /\ pc' = "done"
  /\ UNCHANGED <<data, adj, bk, mf, flow, level, it, calls, prev>>

\* run_belts, lines 150-224, up to the entry of max_flow(sstar, tstar)
BuildAndSolve ==
  /\ pc = "start"
  /\ data.sink # None
  /\ \A i \in 1..Len(data.edges) : ~BadBounds(data.edges[i])
  /\ LET b == BuildGraph(data)
     IN /\ adj' = b.adj
        /\ bk' = [nodes |-> b.nodes, edge_map |-> b.edge_map,
                  total_supply |-> b.total_supply,
                  sum_pos_demands |-> b.sum_pos_demands]
        /\ mf' = [s |-> SStar(b.nodes), t |-> TStar(b.nodes), limit |-> INF]
  /\ flow' = 0
  /\ calls' = calls + 1
  /\ pc' = "bfs"
  /\ UNCHANGED <<data, level, it, out, prev>>

\* max_flow, lines 114-117: level assignment, leave the loop or reset it
MaxFlowLevel ==
  /\ pc = "bfs"
  /\ LET lev == bfs_level(adj, mf.s)
     IN /\ level' = lev
        /\ IF lev[mf.t] < 0
           THEN pc' = "flowed" /\ it' = it
           ELSE pc' = "dfs" /\ it' = [v \in DOMAIN adj |-> 1]
  /\ UNCHANGED <<data, adj, bk, mf, flow, calls, out, prev>>

\* a variant that returns, instead of assigning levels again, when a call
\* pushes nothing
MaxFlowPushOnePhase ==
  /\ pc = "dfs"
  /\ LET r == dfs_flow(adj, it, mf.s, mf.t, mf.limit - flow, level)
     IN /\ adj' = r.adj
        /\ it' = r.it
        /\ IF r.pushed <= EPS
           THEN pc' = "flowed" /\ flow' = flow
           ELSE /\ flow' = flow + r.pushed
                /\ pc' = IF flow + r.pushed + EPS >= mf.limit THEN "flowed" ELSE "dfs"
  /\ UNCHANGED <<data, bk, mf, level, calls, out, prev>>

\* max_flow, lines 118-124: one dfs_flow call of the inner loop
MaxFlowPush ==
  /\ pc = "dfs"
  /\ LET r == dfs_flow(adj, it, mf.s, mf.t, mf.limit - flow, level)
     IN /\ adj' = r.adj
        /\ it' = r.it
        /\ IF r.pushed <= EPS
           THEN pc' = "bfs" /\ flow' = flow
           ELSE /\ flow' = flow + r.pushed
                /\ pc' = IF flow + r.pushed + EPS >= mf.limit THEN "flowed" ELSE "dfs"
  /\ UNCHANGED <<data, bk, mf, level, calls, out, prev>>

\* run_belts, lines 226-283: certificate or reconstruction
Finish ==
  /\ pc = "flowed"
  /\ out' = IF Short(flow, bk) THEN InfeasibleResult(adj, bk, flow)
            ELSE OkResult(adj, bk)
  /\ pc' = "done"
  /\ UNCHANGED <<data, adj, bk, mf, flow, level, it, calls, prev>>

\* the caller submits the same content again, listed in another order
Resubmit ==
  /\ pc = "done"
  /\ prev = NoResult
  /\ \E es \in Orderings(data.edges), ns \in {data.nodes, Reverse(data.nodes)} :
       /\ data' = [data EXCEPT !.edges = es, !.nodes = ns]
       /\ pc' = "start"
       /\ adj' = <<>>
       /\ bk' = NoBook
       /\ mf' = NoCall
       /\ flow' = 0
       /\ level' = <<>>
       /\ it' = <<>>
       /\ calls' = 0
       /\ out' = NoResult
       /\ prev' = out

Next ==
  \/ RejectNoSink
  \/ RejectBadEdge
  \/ BuildAndSolve
  \/ MaxFlowLevel
  \/ MaxFlowPush
  \/ Finish

Spec == Init /\ [][Next]_vars

\* the same solver, each request submitted a second time in another order
ReInit == \E d \in ReRequests(ReNodes) : Fresh(d, NoResult)

ReNext == Next \/ Resubmit

SpecResubmit == ReInit /\ [][ReNext]_vars

\* ------------------------------------------- the Dinic class on its own
\* A caller constructs Dinic(n), makes its add_edge calls in order, then
\* calls max_flow(s, t, limit).  data holds n and the calls still to make.
DCaps == {EPS, Unit}
DLimits == {0, Unit, Unit + EPS, INF}

\* every list of up to DEdges calls over DNodes vertices, self-loops and
\* parallel edges included
CallLists(n, caps, len) ==
  UNION {[1..k -> [u : 0..(n - 1), v : 0..(n - 1), cap : caps]] : k \in 0..len}

FreePlans == {[n |-> DNodes, plan |-> q] : q \in CallLists(DNodes, DCaps, DEdges)}

\* a six-vertex graph whose shortest path 0-1-2-5 has to be partly undone
\* (flow taken back over the reverse of 1->2) for 0-3-2 and 1-4-5 to be used
CrossEdges == <<<<0, 1>>, <<1, 2>>, <<2, 5>>, <<0, 3>>, <<3, 2>>, <<1, 4>>, <<4, 5>>>>

CrossPlans ==
  {[n |-> 6,
    plan |-> [k \in 1..Len(CrossEdges) |->
                [u |-> CrossEdges[k][1], v |-> CrossEdges[k][2], cap |-> c[k]]]] :
     c \in [1..Len(CrossEdges) -> {Unit, 2 * Unit}]}

DinicPlans == FreePlans \cup CrossPlans

\* Dinic.__init__
DinicInit ==
  \E d \in DinicPlans :
     /\ data = d
     /\ pc = "build"
     /\ adj = NewGraph(d.n)
     /\ bk = NoBook
     /\ mf = NoCall
     /\ flow = 0
     /\ level = <<>>
     /\ it = <<>>
     /\ calls = 0
     /\ out = NoResult
     /\ prev = NoResult

\* the caller's next add_edge call
DinicAddEdge ==
  /\ pc = "build"
  /\ data.plan # <<>>
  /\ adj' = AddEdge(adj, Head(data.plan).u, Head(data.plan).v, Head(data.plan).cap)
  /\ data' = [data EXCEPT !.plan = Tail(@)]
  /\ UNCHANGED <<pc, bk, mf, flow, level, it, calls, out, prev>>

\* max_flow, lines 111-112: the call, with any source, sink and cap
DinicMaxFlow ==
  /\ pc = "build"
  /\ data.plan = <<>>
  /\ \E s \in DOMAIN adj, t \in DOMAIN adj, limit \in DLimits :
        mf' = [s |-> s, t |-> t, limit |-> limit]
  /\ flow' = 0
  /\ calls' = calls + 1
  /\ pc' = "bfs"
  /\ UNCHANGED <<data, adj, bk, level, it, out, prev>>

DinicNext ==
  \/ DinicAddEdge
  \/ DinicMaxFlow
  \/ MaxFlowLevel
  \/ MaxFlowPush

DinicSpec == DinicInit /\ [][DinicNext]_vars

\* max_flow runs on once called: no step of it waits for anything
DinicFairSpec == DinicSpec /\ WF_vars(DinicNext)

\* ------------------------------------------------ the request and result
Done == pc = "done"

EdgeIndex == 1..Len(data.edges)
SourceNames == DOMAIN data.sources
ValidBounds == \A i \in EdgeIndex : data.edges[i].lo <= data.edges[i].hi
ValidRequest == data.sink # None /\ ValidBounds

\* the sink is not itself one of the sources
SinkApart == data.sink \notin SourceNames

RECURSIVE SumTo(_, _)
SumTo(f, n) == IF n = 0 THEN 0 ELSE f[n] + SumTo(f, n - 1)

\* flow of the returned list entering and leaving a node
InFlow(v) ==
  SumTo([k \in 1..Len(out.flows) |->
           IF out.flows[k].to = v THEN out.flows[k].flow ELSE 0], Len(out.flows))
OutFlow(v) ==
  SumTo([k \in 1..Len(out.flows) |->
           IF out.flows[k].from = v THEN out.flows[k].flow ELSE 0], Len(out.flows))

Supply(v) == IF v \in SourceNames THEN data.sources[v] ELSE 0

\* an assignment f of flows to the request's edges, and what it must satisfy
AsgIn(f, v) ==
  SumTo([i \in EdgeIndex |-> IF data.edges[i].to = v THEN f[i] ELSE 0], Len(data.edges))
AsgOut(f, v) ==
  SumTo([i \in EdgeIndex |-> IF data.edges[i].from = v THEN f[i] ELSE 0], Len(data.edges))

FeasibleAssignment(f) ==
  /\ \A i \in EdgeIndex : data.edges[i].lo <= f[i] /\ f[i] <= data.edges[i].hi
  /\ \A v \in DOMAIN data.node_caps :
       AsgIn(f, v) <= data.node_caps[v] /\ AsgOut(f, v) <= data.node_caps[v]
  /\ \A v \in NodeSet(data) :
       AsgOut(f, v) - AsgIn(f, v)
         = Supply(v) - (IF v = data.sink THEN TotalSupply(data) ELSE 0)

Feasible == \E f \in [EdgeIndex -> {0, Unit}] : FeasibleAssignment(f)

\* C1: for a request with a sink and valid bounds, a feasible request is
\* answered "ok" with max_flow_per_min the sum of the supplies, and
\* "infeasible" is answered only when no feasible assignment exists.
C1_FeasibilityDecided ==
  (Done /\ ValidRequest /\ SinkApart) =>
     /\ Feasible => (out.status = "ok" /\ out.max_flow_per_min = TotalSupply(data))
     /\ out.status = "infeasible" => ~Feasible

\* C2: in an "ok" result every source sends out its supply, net, and the
\* sink takes in the total supply, net.
C2_SuppliesRealized ==
  (Done /\ out.status = "ok" /\ SinkApart) =>
     /\ \A v \in SourceNames : OutFlow(v) - InFlow(v) = data.sources[v]
     /\ InFlow(data.sink) - OutFlow(data.sink) = TotalSupply(data)

\* C3: in an "ok" result for a valid request, inbound flow equals outbound
\* flow at every node that is neither a source nor the sink.
C3_Conservation ==
  (Done /\ out.status = "ok" /\ ValidBounds) =>
     \A v \in NodeSet(data) \ (SourceNames \cup {data.sink}) : InFlow(v) = OutFlow(v)

\* the records in the order of the returned flows list
FlowRecs == SortBy(FALSE, bk.edge_map)

\* C4: in an "ok" result for a valid request, the k-th returned flow lies
\* within [lo, hi] of the edge it is reported for.
C4_EdgeBounds ==
  (Done /\ out.status = "ok" /\ ValidBounds) =>
     \A k \in 1..Len(out.flows) :
        FlowRecs[k].lo <= out.flows[k].flow /\ out.flows[k].flow <= FlowRecs[k].hi

\* C5: in an "ok" result, the returned flow entering a capped node, and the
\* returned flow leaving it, do not exceed its cap.
C5_NodeCaps ==
  (Done /\ out.status = "ok" /\ ValidBounds) =>
     \A v \in DOMAIN data.node_caps :
        InFlow(v) <= data.node_caps[v] /\ OutFlow(v) <= data.node_caps[v]

InCut(v) == v \in SeqRange(out.cut_reachable)

\* C6: in an "infeasible" result cut_reachable holds every source with a
\* positive supply and does not hold the sink.
C6_CutMembership ==
  (Done /\ out.status = "infeasible") =>
     /\ \A v \in SourceNames : data.sources[v] > 0 => InCut(v)
     /\ ~InCut(data.sink)

\* vertices reachable from s over edges with residual capacity above EPS,
\* as a least fixed point
ResidualSucc(A, S) ==
  UNION {{A[u][i].to : i \in {j \in 1..Len(A[u]) : Residual(A[u][j]) > EPS}} : u \in S}

RECURSIVE ResidualReach(_, _)
ResidualReach(A, S) ==
  IF ResidualSucc(A, S) \subseteq S THEN S
  ELSE ResidualReach(A, S \cup ResidualSucc(A, S))

\* the residual edge add_edge created for the k-th record of edge_map: the
\* adjacency list of u_out holds the reverse of the node edge first, then
\* the user edges leaving the node in edge_map order
OwnIndex(k) ==
  1 + Cardinality({j \in 1..k : bk.edge_map[j].u_out = bk.edge_map[k].u_out})
OwnEdge(k) == adj[bk.edge_map[k].u_out][OwnIndex(k)]

Listed(rec) ==
  \E i \in 1..Len(out.tight_edges) :
     out.tight_edges[i].from = rec.from /\ out.tight_edges[i].to = rec.to

\* C7: in an "infeasible" result every user edge from a node in
\* cut_reachable to a node outside it is saturated and listed in
\* tight_edges, and every entry of tight_edges is such a crossing edge.
C7_CutEdges ==
  (Done /\ out.status = "infeasible") =>
     /\ \A k \in 1..Len(bk.edge_map) :
          LET rec == bk.edge_map[k]
          IN (InCut(rec.from) /\ ~InCut(rec.to)) =>
               (OwnEdge(k).flow = Max(0, rec.hi - rec.lo) /\ Listed(rec))
     /\ \A i \in 1..Len(out.tight_edges) :
          InCut(out.tight_edges[i].from) /\ ~InCut(out.tight_edges[i].to)

\* C7 as amended: the crossing edges are those from a reachable node-out
\* vertex to an unreachable node-in vertex; each is saturated within EPS and
\* listed, and every entry of tight_edges is the entry of such an edge.
C7_CutEdgesByVertex ==
  (Done /\ out.status = "infeasible") =>
     LET reach == ResidualReach(adj, {mf.s})
         Crossing(rec) == rec.u_out \in reach /\ rec.v_in \notin reach
     IN /\ \A k \in 1..Len(bk.edge_map) :
             Crossing(bk.edge_map[k]) =>
               (Residual(OwnEdge(k)) <= EPS /\ Listed(bk.edge_map[k]))
        /\ \A i \in 1..Len(out.tight_edges) :
             \E k \in 1..Len(bk.edge_map) :
                /\ bk.edge_map[k].from = out.tight_edges[i].from
                /\ bk.edge_map[k].to = out.tight_edges[i].to
                /\ Crossing(bk.edge_map[k])

\* an infeasible result for a valid request, reached after max_flow pushed
\* flow, that lists a tight edge
C7_Witness ==
  Done /\ ValidBounds /\ flow > 0 /\ out.status = "infeasible" /\ out.tight_edges # <<>>

\* nodes reachable from S along user edges without entering `avoid`
UserSucc(S, avoid) ==
  {data.edges[i].to : i \in {j \in EdgeIndex :
      data.edges[j].from \in S /\ data.edges[j].to # avoid}}

RECURSIVE UserReach(_, _)
UserReach(S, avoid) ==
  IF UserSucc(S, avoid) \subseteq S THEN S
  ELSE UserReach(S \cup UserSucc(S, avoid), avoid)

PosSources == {v \in SourceNames : data.sources[v] > 0}

\* a is an intermediate node, capped below the total supply, on every path
\* from the sources to the sink
Bottleneck(a) ==
  /\ a \in DOMAIN data.node_caps
  /\ a \notin SourceNames \cup {data.sink}
  /\ data.node_caps[a] < TotalSupply(data)
  /\ PosSources # {}
  /\ \A v \in PosSources : data.sink \in UserReach({v}, None)
  /\ data.sink \notin UserReach(PosSources \ {a}, a)

\* C8: with a bottleneck node the result is "infeasible" with a positive
\* demand_balance, and the node is in tight_nodes or is the `from` of a
\* tight edge.
C8_BottleneckNamed ==
  (Done /\ ValidRequest) =>
     \A a \in NodeSet(data) :
        Bottleneck(a) =>
           /\ out.status = "infeasible"
           /\ out.demand_balance > 0
           /\ \/ a \in SeqRange(out.tight_nodes)
              \/ \E i \in 1..Len(out.tight_edges) : out.tight_edges[i].from = a

NamesEdge(bad(_)) ==
  \E i \in EdgeIndex :
     /\ bad(data.edges[i])
     /\ out.message.from = data.edges[i].from
     /\ out.message.to = data.edges[i].to

ErrorFor(bad(_)) ==
  (data.sink = None \/ \E i \in EdgeIndex : bad(data.edges[i])) =>
     /\ calls = 0
     /\ pc \in {"start", "done"}
     /\ Done => /\ out.status = "error"
                /\ out.message.text # ""
                /\ data.sink # None => NamesEdge(bad)

HiBelowLo(e) == e.hi < e.lo
HiBelowLoByEps(e) == e.hi + EPS < e.lo

\* C9: a request with no sink, or with an edge whose hi is below its lo, is
\* answered "error" with a message (naming the from and to of such an edge),
\* and max_flow is not called for it.
C9_RequestErrors == ErrorFor(HiBelowLo)

\* C9 as amended: the same, for an edge whose hi is below its lo by more
\* than EPS.
C9_RequestErrorsBeyondEps == ErrorFor(HiBelowLoByEps)

\* an edge error has been returned for a request that also has a good edge
C9_Witness ==
  /\ Done
  /\ data.sink # None
  /\ out.status = "error"
  /\ \E i \in EdgeIndex : ~HiBelowLo(data.edges[i])

\* C10: the second submission of a request, with its edges and nodes listed
\* in any order, returns what the first submission returned.
C10_Determinism ==
  (Done /\ prev # NoResult) => out = prev

\* a second submission, its edges listed out of key order, for which
\* max_flow pushed flow, has returned its flows
C10_Witness ==
  /\ Done
  /\ prev # NoResult
  /\ ValidBounds
  /\ \E i \in EdgeIndex : \E j \in EdgeIndex :
        i < j /\ EdgeKeyLess(data.edges[j], data.edges[i])
  /\ flow > 0
  /\ out.status = "ok"


\* C12: in an "ok" result the k-th returned flow is lo plus the final flow on
\* the residual edge add_edge created for that very record, clamped at zero
\* (the flows list follows edge_map, which is already in (from, to) order).
C12_OwnResidualEdge ==
  (Done /\ out.status = "ok") =>
     /\ FlowRecs = bk.edge_map
     /\ \A k \in 1..Len(out.flows) :
          out.flows[k].flow = Max(0, bk.edge_map[k].lo + OwnEdge(k).flow)

\* ------------------------------------------------- the residual graph
\* the places (vertex, position) of the edges stored in the adjacency lists
EdgeAt == UNION {{<<u, i>> : i \in 1..Len(adj[u])} : u \in DOMAIN adj}

\* the edge the rev handle of adj[u][i] points at
RevOf(A, u, i) == A[A[u][i].to][A[u][i].rev]

SkewSymmetric ==
  \A ui \in EdgeAt :
     LET e == adj[ui[1]][ui[2]]
     IN /\ e.rev \in 1..Len(adj[e.to])
        /\ RevOf(adj, ui[1], ui[2]).flow = 0 - e.flow
        /\ e.to = ui[1] => e.flow = 0

\* one dfs_flow call of max_flow pushed f: every flow it changed rose by f
\* with the paired flow falling by f, or the reverse; a call that pushed
\* nothing changed nothing; no call touches to, rev or cap
AugmentationStep ==
  (pc = "dfs") =>
     LET f == flow' - flow
     IN /\ DOMAIN adj' = DOMAIN adj
        /\ \A ui \in EdgeAt :
             LET e == adj[ui[1]][ui[2]]
                 e2 == adj'[ui[1]][ui[2]]
                 r == RevOf(adj, ui[1], ui[2])
                 r2 == RevOf(adj', ui[1], ui[2])
             IN /\ Len(adj'[ui[1]]) = Len(adj[ui[1]])
                /\ e2.to = e.to /\ e2.rev = e.rev /\ e2.cap = e.cap
                /\ e2.flow - e.flow \in {0, f, 0 - f}
                /\ r2.flow - r.flow = 0 - (e2.flow - e.flow)
        /\ (f > 0 /\ mf.s # mf.t) =>
             \E ui \in EdgeAt : adj'[ui[1]][ui[2]].flow = adj[ui[1]][ui[2]].flow + f

\* C14: in every state from construction on, each edge and the edge its rev
\* handle pairs it with carry opposite flows, and every augmentation raises
\* one by what it lowers the other, leaving the capacities as they were.
C14_SkewSymmetry == []SkewSymmetric /\ [][AugmentationStep]_vars

\* max_flow has returned a positive flow and a reverse edge, of capacity 0,
\* carries a negative flow
C14_Witness ==
  /\ pc = "flowed"
  /\ flow > 0
  /\ \E ui \in EdgeAt : adj[ui[1]][ui[2]].cap = 0 /\ adj[ui[1]][ui[2]].flow < 0

\* C15: every residual edge, forward or reverse, has 0 <= flow <= capacity.
C15_FlowWithinCapacity ==
  \A ui \in EdgeAt :
     0 <= adj[ui[1]][ui[2]].flow /\ adj[ui[1]][ui[2]].flow <= adj[ui[1]][ui[2]].cap

\* C15 as amended: every residual edge has flow <= capacity and flow >=
\* minus the capacity of its paired edge; a forward edge, whose reverse has
\* capacity 0, so has 0 <= flow <= capacity.
C15_FlowWithinPairCapacity ==
  \A ui \in EdgeAt :
     /\ adj[ui[1]][ui[2]].flow <= adj[ui[1]][ui[2]].cap
     /\ 0 - RevOf(adj, ui[1], ui[2]).cap <= adj[ui[1]][ui[2]].flow

\* max_flow has returned with an edge filled to its capacity, its reverse
\* edge carrying minus that capacity
C15_Witness ==
  /\ pc = "flowed"
  /\ \E ui \in EdgeAt :
        /\ adj[ui[1]][ui[2]].cap > EPS
        /\ adj[ui[1]][ui[2]].flow = adj[ui[1]][ui[2]].cap
        /\ RevOf(adj, ui[1], ui[2]).flow = 0 - adj[ui[1]][ui[2]].cap

\* ------------------------------------------------------ maximum flow
\* capacity of the cut (S, rest): the capacities of the stored edges that
\* leave S (a reverse edge adds its capacity, 0)
CutCapacity(S) ==
  LET out_of == {ui \in EdgeAt : ui[1] \in S /\ adj[ui[1]][ui[2]].to \notin S}
  IN SumOver(out_of, [ui \in out_of |-> adj[ui[1]][ui[2]].cap])

\* value of a maximum s-t flow: the capacity of a minimum s-t cut
MinCutValue(s, t) ==
  LET caps == {CutCapacity(S) : S \in {T \in SUBSET (DOMAIN adj) : s \in T /\ t \notin T}}
  IN CHOOSE c \in caps : \A d \in caps : c <= d

\* vertices reachable from S over edges with residual capacity above tol
ReachAbove(tol, S) ==
  LET Succ(T) == {adj[ui[1]][ui[2]].to :
                    ui \in {x \in EdgeAt : x[1] \in T /\ Residual(adj[x[1]][x[2]]) > tol}}
      F[k \in 0..Cardinality(DOMAIN adj)] ==
        IF k = 0 THEN S ELSE F[k - 1] \cup Succ(F[k - 1])
  IN F[Cardinality(DOMAIN adj)]

Returned == pc = "flowed" /\ bk = NoBook /\ mf.s # mf.t

\* C11: max_flow(s, t, limit) with s # t returns the minimum of limit and
\* the maximum flow value, never more than limit, and when it returns less
\* than limit, t is not reachable from s over edges with positive residual
\* capacity.
C11_MaxFlowComputed ==
  Returned =>
     /\ flow = Min(mf.limit, MinCutValue(mf.s, mf.t))
     /\ flow <= mf.limit
     /\ flow < mf.limit => mf.t \notin ReachAbove(0, {mf.s})

\* C11 as amended: the value returned is at most limit and at most the
\* maximum flow value, and falls short of the smaller of the two by no more
\* than EPS per stored edge; when it returns more than EPS below limit, t is
\* not reachable from s over edges with residual capacity above EPS.
C11_MaxFlowWithinEps ==
  Returned =>
     LET best == MinCutValue(mf.s, mf.t)
     IN /\ flow <= mf.limit
        /\ flow <= best
        /\ Min(mf.limit, best) - flow <= EPS * Max(1, Cardinality(EdgeAt))
        /\ flow + EPS < mf.limit => mf.t \notin ReachAbove(EPS, {mf.s})

\* max_flow has returned 2 units from 0 to 5 on the six-vertex graph with
\* every capacity 1 unit: the unit first sent along 0-1-2-5 was rerouted
C11_Witness ==
  /\ Returned
  /\ Cardinality(DOMAIN adj) = 6
  /\ mf = [s |-> 0, t |-> 5, limit |-> INF]
  /\ \A ui \in EdgeAt : adj[ui[1]][ui[2]].cap <= Unit
  /\ flow = 2 * Unit

\* C13: once called, max_flow returns.
C13_Terminates == <>(pc = "flowed")

=============================================================================
